---- MODULE Spec2Model ----
(***************************************************************************)
(* TrustBridge backend (server/app.py): the loan ledger with its document  *)
(* escrow, the per-user trust-score record, and the one-time-code store,   *)
(* as a state machine with one action per request handler.                 *)
(*                                                                         *)
(* A Firestore document is a function from its present leaf field paths to *)
(* their values; an absent field is a path outside the function's domain.  *)
(* Dates are day numbers: the handlers compare "%Y-%m-%d" strings of UTC   *)
(* instants, which orders them by calendar day.                            *)
(***************************************************************************)
EXTENDS Integers, Sequences, FiniteSets, TLC

VARIABLES now, loans, unlocks, users, otp_store, otp_log, inflight, resp

vars == <<now, loans, unlocks, users, otp_store, otp_log, inflight, resp>>

----------------------------------------------------------------------------
(* Bounds of the model and constants of the program.                       *)

\* timedelta(days=30) of loan_request.
DueDays == 30

\* Requests arrive on the first days 0..MaxEarly and on the days on and after
\* the first due date, DueDays..DueDays+MaxEarly.
MaxEarly == 1

\* Loans created over a run.
MaxLoans == 1

\* Requests in progress at once in the concurrent specifications.
MaxInflight == 2

\* Codes stored by send-otp over a run.
MaxOtpSends == 2

Days == (0..MaxEarly) \cup (DueDays..(DueDays + MaxEarly))

Uids == {"u1", "u2"}

\* A request field that is not sent, or a regex that found no match.
NONE == "none"

----------------------------------------------------------------------------
(* The ledger: Firestore's set(..., merge=True), update and get.           *)

EmptyDoc == [p \in {} |-> 0]

Has(doc, p) == p \in DOMAIN doc

\* set(data, merge=True): the leaf paths of data are written, every other
\* field of the document is kept.
MergeSet(doc, data) ==
    [p \in (DOMAIN doc) \cup (DOMAIN data) |->
        IF p \in DOMAIN data THEN data[p] ELSE doc[p]]

\* The response of a handler to the request (op, args); seq alternates so
\* that two equal responses in a row are two steps.
Reply(op, args, code, body) ==
    [op |-> op, args |-> args, code |-> code, body |-> body, seq |-> 1 - resp.seq]

----------------------------------------------------------------------------
(* Loans: users/<uid>/loans/<loan_id>. loans[id].uid is the user whose     *)
(* subcollection holds the loan, loans[id].doc the loan document.          *)

LoanExists(uid, id) == id \in DOMAIN loans /\ loans[id].uid = uid

\* The amounts a loan request may carry: not sent, text, or a number.
\* float(data.get("amount")) raises on text, and parses a number.
Amounts == {[kind |-> "none", v |-> 0], [kind |-> "text", v |-> 0],
            [kind |-> "num", v |-> 0], [kind |-> "num", v |-> 100]}

\* The loan requests: a valid one for either user, with the ledger up or
\* down, and one for each way of failing validation.
LoanRequests ==
    [uid : Uids, amount : {[kind |-> "num", v |-> 100]}, wallet : {"0xabc"},
     ledgerOk : BOOLEAN]
    \cup [uid : {"u1"}, amount : Amounts, wallet : {"0xabc"}, ledgerOk : {TRUE}]
    \cup {[uid |-> NONE, amount |-> [kind |-> "num", v |-> 100], wallet |-> "0xabc",
           ledgerOk |-> TRUE],
          [uid |-> "u1", amount |-> [kind |-> "num", v |-> 100], wallet |-> NONE,
           ledgerOk |-> TRUE]}

\* POST /loan/request
LoanRequest(uid, amount, wallet, ledgerOk) ==
    LET args == [uid |-> uid]
    IN
    /\ IF uid = NONE \/ amount.kind = "none" \/ wallet = NONE
       THEN /\ resp' = Reply("loan_request", args, 400, "Missing required fields")
            /\ UNCHANGED loans
       ELSE IF amount.kind # "num"
       THEN /\ resp' = Reply("loan_request", args, 400, "Invalid amount")
            /\ UNCHANGED loans
       ELSE IF amount.v <= 0
       THEN /\ resp' = Reply("loan_request", args, 400, "Amount must be positive")
            /\ UNCHANGED loans
       ELSE IF ~ledgerOk
       THEN /\ resp' = Reply("loan_request", args, 500, "Database error")
            /\ UNCHANGED loans
       ELSE /\ Len(loans) < MaxLoans
            /\ now <= MaxEarly
            /\ loans' = Append(loans,
                   [uid |-> uid,
                    doc |-> [amount |-> amount.v,
                             purpose |-> "purpose",
                             timestamp |-> now,
                             due_date |-> now + DueDays,
                             status |-> "pending",
                             wallet |-> wallet]])
            /\ resp' = Reply("loan_request", args, 200, "loan request submitted")
    /\ UNCHANGED <<now, unlocks, users, otp_store, otp_log, inflight>>

Decisions == {"approved", "rejected", "pending", NONE}

\* set() in place of update(): the document becomes the data.
UpdateStatusSet(doc, decision) == [status |-> decision]

\* loan_ref.update({"status": decision})
UpdateStatus(doc, decision) == MergeSet(doc, [status |-> decision])

\* POST /loan/decision/<uid>/<loan_id>
LoanDecision(uid, id, decision) ==
    LET args == [uid |-> uid, loan_id |-> id]
    IN
    /\ IF decision \notin {"approved", "rejected"}
       THEN /\ resp' = Reply("loan_decision", args, 400,
                             "Decision must be either 'approved' or 'rejected'")
            /\ UNCHANGED loans
       ELSE IF ~LoanExists(uid, id)
       THEN /\ resp' = Reply("loan_decision", args, 404, "Loan not found")
            /\ UNCHANGED loans
       ELSE /\ loans' = [loans EXCEPT ![id].doc = UpdateStatus(@, decision)]
            /\ resp' = Reply("loan_decision", args, 200, [decision |-> decision])
    /\ UNCHANGED <<now, unlocks, users, otp_store, otp_log, inflight>>

\* utils.loan_utils.calculate_total_due refuses a due date before the issue date.
DateRangeValid(issue_date, due_date) == issue_date <= due_date

\* Amounts due are counted in hundredths, so that a percentage of a principal
\* is a whole number.
Hundredths(amount) == 100 * amount

\* The overdue penalty: simple daily interest, in percent of the principal
\* per day late.
PenaltyPerDayPct == 1

DaysLate(due_date, current_date) ==
    IF current_date > due_date THEN current_date - due_date ELSE 0

\* utils.loan_utils.calculate_total_due, for a valid date range: the
\* principal, plus the penalty once the due day has passed.
CalculateTotalDue(principal, issue_date, due_date, current_date) ==
    Hundredths(principal)
        + principal * PenaltyPerDayPct * DaysLate(due_date, current_date)

\* The due day taken for the issue day.
IssueDateFromDueDate(doc) == doc.due_date

\* The stored timestamp as a "%Y-%m-%d" day.
IssueDateOf(doc) == doc.timestamp

\* The issue day taken for the due day.
DueDateFromTimestamp(doc) == doc.timestamp

\* The stored due_date as a "%Y-%m-%d" day.
DueDateOf(doc) == doc.due_date

ReleasedFlag(doc) == Has(doc, "documents_released") /\ doc.documents_released

\* utils.loan_utils.check_and_release_documents: whether this call releases.
ShouldRelease(doc, due_date, current_date) ==
    ~ReleasedFlag(doc) /\ current_date >= due_date

\* The ledger write of a release.
MarkReleased(doc, current_date) ==
    MergeSet(doc, [documents_released |-> TRUE, released_at |-> current_date])

\* GET /loan/status/<uid>/<loan_id>
LoanStatus(uid, id) ==
    LET args == [uid |-> uid, loan_id |-> id]
    IN
    /\ IF ~LoanExists(uid, id)
       THEN /\ resp' = Reply("loan_status", args, 404, "Loan not found")
            /\ UNCHANGED <<loans, unlocks>>
       ELSE LET doc == loans[id].doc
                current_date == now
            IN  IF ~({"amount", "timestamp", "due_date"} \subseteq DOMAIN doc)
                THEN /\ resp' = Reply("loan_status", args, 400, "Invalid loan data")
                     /\ UNCHANGED <<loans, unlocks>>
                ELSE IF ~DateRangeValid(IssueDateOf(doc), DueDateOf(doc))
                THEN /\ resp' = Reply("loan_status", args, 400, "Invalid date format")
                     /\ UNCHANGED <<loans, unlocks>>
                ELSE LET docs_released == ShouldRelease(doc, DueDateOf(doc), current_date)
                     IN  /\ loans' = IF docs_released
                                     THEN [loans EXCEPT ![id].doc = MarkReleased(@, current_date)]
                                     ELSE loans
                         /\ unlocks' = IF docs_released
                                       THEN [unlocks EXCEPT ![id] = @ + 1]
                                       ELSE unlocks
                         /\ resp' = Reply("loan_status", args, 200,
                                [principal |-> doc.amount,
                                 total_due |-> CalculateTotalDue(doc.amount,
                                     IssueDateOf(doc), DueDateOf(doc), current_date),
                                 issue_date |-> IssueDateOf(doc),
                                 due_date |-> DueDateOf(doc),
                                 current_date |-> current_date,
                                 documents_released |-> docs_released,
                                 status |-> IF Has(doc, "status") THEN doc.status ELSE "unknown"])
    /\ UNCHANGED <<now, users, otp_store, otp_log, inflight>>

\* datetime.now(timezone.utc): the clock moves on to a later day.
Tick ==
    /\ \E d \in Days : d > now /\ now' = d
    /\ UNCHANGED <<loans, unlocks, users, otp_store, otp_log, inflight, resp>>

\* Loan documents as the ledger may hold them: loan_status also reads loans
\* that loan_request did not write (it accepts a due_date stored as text).
StoredLoans ==
    [amount : {100, 250}, purpose : {"purpose"}, timestamp : 0..MaxEarly,
     due_date : Days, status : {"approved"}, wallet : {"0xabc"}]

----------------------------------------------------------------------------
(* The user record users/<uid>: profile fields, face_images and the nested *)
(* trust_score map, by leaf path.                                          *)

IdScore == "trust_score.identity_score"
IdAt == "trust_score.identity_verified_at"
IdHistory == "trust_score.identity_history"
FinScore == "trust_score.financial_score"
FinAt == "trust_score.financial_verified_at"
FinHistory == "trust_score.financial_history"

TrustPaths == {IdScore, IdAt, IdHistory, FinScore, FinAt, FinHistory}

\* The JSON bodies a profile update may carry: any object is accepted.
ProfileBodies ==
    {[name |-> "Asha Rao"],
     [p \in {IdScore} |-> 100]}

\* POST /user/profile/<uid>
ProfileUpdate(uid, data) ==
    /\ users' = [users EXCEPT ![uid] = MergeSet(@, data)]
    /\ resp' = Reply("user_profile", [uid |-> uid], 200, "profile updated")
    /\ UNCHANGED <<now, loans, unlocks, otp_store, otp_log, inflight>>

FaceImages(uid) == [live |-> <<"trustbridge", uid, "live">>,
                    doc |-> <<"trustbridge", uid, "doc">>]

\* What the storage and the comparator do to a face request.
FaceOutcomes ==
    {[uploadOk |-> FALSE, comparatorOk |-> TRUE, verified |-> FALSE],
     [uploadOk |-> TRUE, comparatorOk |-> FALSE, verified |-> FALSE],
     [uploadOk |-> TRUE, comparatorOk |-> TRUE, verified |-> FALSE],
     [uploadOk |-> TRUE, comparatorOk |-> TRUE, verified |-> TRUE]}

\* POST /face/verify. uploadOk: the object storage takes the two images;
\* comparatorOk: DeepFace.verify returns rather than raises.
FaceVerify(uid, uploadOk, comparatorOk, verified) ==
    LET args == [uid |-> uid]
    IN
    /\ IF uid = NONE
       THEN /\ resp' = Reply("face_verify", args, 400,
                             "live_image, doc_image, and uid are required")
            /\ UNCHANGED users
       ELSE IF ~uploadOk
       THEN /\ resp' = Reply("face_verify", args, 500, "Face verification failed")
            /\ UNCHANGED users
       ELSE /\ users' = [users EXCEPT ![uid] =
                            MergeSet(@, [face_images |-> FaceImages(uid)])]
            /\ IF ~comparatorOk
               THEN resp' = Reply("face_verify", args, 500, "Face verification failed")
               ELSE resp' = Reply("face_verify", args, 200,
                                  [match |-> verified,
                                   live_image_url |-> FaceImages(uid).live,
                                   doc_image_url |-> FaceImages(uid).doc])
    /\ UNCHANGED <<now, loans, unlocks, otp_store, otp_log, inflight>>

----------------------------------------------------------------------------
(* Identity scoring: POST /vision/first-trustscore.                        *)

BypassPan == "EMPPG7988Q"
GoodPan == "ABCDE1234F"
UnverifiedPan == "PQRST5678K"
UnknownPan == "ZZZZZ0000Z"

Pans == {NONE, BypassPan, GoodPan, UnverifiedPan, UnknownPan}
Names == {NONE, "Asha Rao", "ASHA RAO", "Ravi Kumar"}
Phones == {"9000000001", "9000000002"}
ExtractedPhones == {NONE, "9000000001"}
Aadhaars == {NONE, "123412341234"}

\* str.lower() on the names of the model.
Lower(name) ==
    CASE name = "Asha Rao" -> "asha rao"
      [] name = "ASHA RAO" -> "asha rao"
      [] name = "Ravi Kumar" -> "ravi kumar"
      [] OTHER -> name

\* The gov_records collection as the request finds it, by PAN; the program
\* never writes it.
GovBase ==
    [p \in {GoodPan, UnverifiedPan} |->
        IF p = GoodPan
        THEN [verified |-> TRUE, name |-> "ASHA RAO", phone |-> "9000000001"]
        ELSE [verified |-> FALSE, name |-> "ASHA RAO", phone |-> "9000000001"]]

GovWithBypassRecord ==
    [p \in {GoodPan, UnverifiedPan, BypassPan} |->
        IF p = BypassPan
        THEN [verified |-> FALSE, name |-> "Ravi Kumar", phone |-> "9000000002"]
        ELSE GovBase[p]]

\* What the regexes found in the combined extracted text.
Evidence == [pan : Pans, aadhaar : Aadhaars, name : Names, phone : ExtractedPhones]

\* name_extracted.lower() != gov_data["name"].lower() is false
NameEq(a, b) == Lower(a) = Lower(b)

\* "and" in place of "or": rejected only when both differ.
DetailsMismatchBoth(name, phone_input, record) ==
    ~NameEq(name, record.name) /\ phone_input # record.phone

\* name_extracted.lower() != gov_data["name"].lower()
\*   or str(phone_input) != str(gov_data["phone"])
DetailsMismatch(name, phone_input, record) ==
    ~NameEq(name, record.name) \/ phone_input # record.phone

\* The lookup of the PAN in gov_records and the match against its record.
GovCheck(pan, name, phone_input, gov) ==
    IF pan \notin DOMAIN gov
    THEN [ok |-> FALSE, lookup |-> TRUE, error |-> "PAN not found in government records"]
    ELSE IF ~gov[pan].verified
    THEN [ok |-> FALSE, lookup |-> TRUE, error |-> "Government record not verified"]
    ELSE IF DetailsMismatch(name, phone_input, gov[pan])
    THEN [ok |-> FALSE, lookup |-> TRUE, error |-> "Details do not match government records"]
    ELSE [ok |-> TRUE, lookup |-> TRUE, error |-> NONE]

\* No bypass code: every PAN is looked up.
PanCheckNoBypass(pan, name, phone_input, gov) == GovCheck(pan, name, phone_input, gov)

\* PAN verification: the bypass code, or the government record.
PanCheck(pan, name, phone_input, gov) ==
    IF pan = BypassPan
    THEN [ok |-> TRUE, lookup |-> FALSE, error |-> NONE]
    ELSE GovCheck(pan, name, phone_input, gov)

Min(a, b) == IF a <= b THEN a ELSE b
Max(a, b) == IF a >= b THEN a ELSE b

\* The phone bucket awarded for any extracted phone.
IdentityScoreNoPhoneCheck(pan_verified, aadhaar_verified, phone_extracted, phone_input, name_extracted) ==
    Min((IF pan_verified THEN 40 ELSE 0)
        + (IF aadhaar_verified THEN 30 ELSE 0)
        + (IF phone_extracted # NONE THEN 20 ELSE 0)
        + (IF name_extracted # NONE THEN 10 ELSE 0), 100)

\* The identity trust score: the four buckets, capped at 100.
IdentityScore(pan_verified, aadhaar_verified, phone_extracted, phone_input, name_extracted) ==
    Min((IF pan_verified THEN 40 ELSE 0)
        + (IF aadhaar_verified THEN 30 ELSE 0)
        + (IF phone_extracted # NONE /\ phone_extracted = phone_input THEN 20 ELSE 0)
        + (IF name_extracted # NONE THEN 10 ELSE 0), 100)

\* set() without merge=True: the document becomes the data.
TrustScoreWriteNoMerge(doc, data) == data

\* user_ref.set({'trust_score': {...}}, merge=True) of the two scoring handlers.
TrustScoreWrite(doc, data) == MergeSet(doc, data)

\* The fields the identity handler writes.
IdentityData(score, pan_verified, aadhaar_verified, at) ==
    [p \in {IdScore, IdAt, IdHistory} |->
        CASE p = IdScore -> score
          [] p = IdAt -> at
          [] p = IdHistory ->
                <<[score |-> score,
                   reason |-> <<"Identity verification completed", pan_verified,
                                aadhaar_verified>>,
                   date |-> at]>>]

\* The validations of the identity handler, up to the write: the response
\* of a rejected request, or the 200 response and the data to write.
\* front: how far the request gets before the regexes ("ok": at least one
\* supported document was extracted).
IdentityOutcome(uid, phone_input, front, ev, gov) ==
    LET fail(code, msg) ==
            [code |-> code, body |-> [error |-> msg, gov_lookup |-> FALSE],
             data |-> EmptyDoc]
    IN
    IF uid = NONE THEN fail(400, "User ID required")
    ELSE IF phone_input = NONE THEN fail(400, "Phone number required")
    ELSE IF front = "absent" THEN fail(400, "No file uploaded")
    ELSE IF front = "extractor_down" THEN fail(500, "Failed to process identity documents")
    ELSE IF front = "unsupported" THEN fail(400, "No valid documents processed")
    ELSE IF ev.pan = NONE \/ ev.name = NONE
    THEN fail(403, "PAN or Name not verified in documents")
    ELSE LET chk == PanCheck(ev.pan, ev.name, phone_input, gov)
         IN  IF ~chk.ok
             THEN [code |-> 403, body |-> [error |-> chk.error, gov_lookup |-> chk.lookup],
                   data |-> EmptyDoc]
             ELSE LET pan_verified == TRUE
                      aadhaar_verified == ev.aadhaar # NONE
                      score == IdentityScore(pan_verified, aadhaar_verified, ev.phone,
                                             phone_input, ev.name)
                  IN  [code |-> 200,
                       body |-> [trust_score |-> score,
                                 aadhaar_verified |-> aadhaar_verified,
                                 aadhaar_number |-> ev.aadhaar,
                                 pan_verified |-> pan_verified,
                                 pan_number |-> ev.pan,
                                 phone_provided |-> phone_input,
                                 phone_extracted |-> ev.phone,
                                 name_extracted |-> ev.name,
                                 gov_lookup |-> chk.lookup],
                       data |-> IdentityData(score, pan_verified, aadhaar_verified, now)]

\* The government record of a PAN as the request finds it.
GovRecordOf(gov, pan) ==
    IF pan \in DOMAIN gov
    THEN [present |-> TRUE, verified |-> gov[pan].verified,
          name |-> gov[pan].name, phone |-> gov[pan].phone]
    ELSE [present |-> FALSE, verified |-> FALSE, name |-> NONE, phone |-> NONE]

\* What the request submitted and what the regexes and the ledger gave it.
IdentityArgs(uid, phone_input, front, ev, gov) ==
    [uid |-> uid, phone |-> phone_input, front |-> front,
     pan |-> ev.pan, name |-> ev.name, record |-> GovRecordOf(gov, ev.pan)]

VerifyIdentity(uid, phone_input, front, ev, gov) ==
    LET out == IdentityOutcome(uid, phone_input, front, ev, gov)
    IN
    /\ users' = IF out.code = 200
                THEN [users EXCEPT ![uid] = TrustScoreWrite(@, out.data)]
                ELSE users
    /\ resp' = Reply("identity", IdentityArgs(uid, phone_input, front, ev, gov),
                     out.code, out.body)
    /\ UNCHANGED <<now, loans, unlocks, otp_store, otp_log, inflight>>

NoEvidence == [pan |-> NONE, aadhaar |-> NONE, name |-> NONE, phone |-> NONE]

\* Two bundles that pass (the bypass code with a name; every bucket against
\* the government record).
FewEvidence ==
    {NoEvidence,
     [pan |-> BypassPan, aadhaar |-> NONE, name |-> "Ravi Kumar", phone |-> NONE],
     [pan |-> GoodPan, aadhaar |-> "123412341234", name |-> "Asha Rao",
      phone |-> "9000000001"]}

\* Requests that fail before the regexes, and a few that reach them, for
\* either user.
FewIdentityRequests ==
    {[uid |-> NONE, phone |-> "9000000001", front |-> "ok", ev |-> NoEvidence,
      gov |-> GovBase],
     [uid |-> "u1", phone |-> NONE, front |-> "ok", ev |-> NoEvidence,
      gov |-> GovBase]}
    \cup [uid : {"u1"}, phone : {"9000000001"},
          front : {"absent", "unsupported", "extractor_down"},
          ev : {NoEvidence}, gov : {GovBase}]
    \cup [uid : Uids, phone : {"9000000001"}, front : {"ok"}, ev : FewEvidence,
          gov : {GovBase}]

\* Every evidence bundle and submitted phone, for one user; the government
\* collection may or may not hold a record under the bypass code.
IdentityRequests ==
    FewIdentityRequests
    \cup [uid : {"u1"}, phone : Phones, front : {"ok"}, ev : Evidence, gov : {GovBase}]
    \cup [uid : {"u1"}, phone : Phones, front : {"ok"},
          ev : {e \in Evidence : e.pan = BypassPan}, gov : {GovWithBypassRecord}]

----------------------------------------------------------------------------
(* Financial scoring: POST /vision/financial-trustscore.                   *)

\* The scorer's answer as the two regexes see it: whether "Score:" occurs,
\* the digits that follow it, and what follows "Explanation:" (NONE without
\* the label).
ScorerTexts ==
    {[label |-> FALSE, digits |-> <<>>, explanation |-> NONE],
     [label |-> TRUE, digits |-> <<9, 0>>, explanation |-> "Consistent payments"],
     [label |-> TRUE, digits |-> <<2, 5, 0>>, explanation |-> NONE],
     [label |-> TRUE, digits |-> <<1, 0, 0, 0>>, explanation |-> ""],
     [label |-> TRUE, digits |-> <<>>, explanation |-> "No documents"],
     [label |-> TRUE, digits |-> <<0>>, explanation |-> "Overdue payments"],
     [label |-> FALSE, digits |-> <<7, 0>>, explanation |-> NONE],
     [label |-> FALSE, digits |-> <<>>, explanation |-> "No documents"]}

FewScorerTexts ==
    {t \in ScorerTexts : t.digits \in {<<>>, <<9, 0>>} /\ t.explanation # "No documents"}

RECURSIVE DigitsToInt(_)
\* int() of a digit string.
DigitsToInt(ds) ==
    IF ds = <<>> THEN 0
    ELSE 10 * DigitsToInt(SubSeq(ds, 1, Len(ds) - 1)) + ds[Len(ds)]

\* re.search(r"Score:\s*(\d{1,3})"): the first one to three digits after the
\* label, <<>> when there is no match.
ScoreMatch(text) ==
    IF text.label /\ Len(text.digits) >= 1
    THEN <<DigitsToInt(SubSeq(text.digits, 1, Min(3, Len(text.digits))))>>
    ELSE <<>>

DefaultFinancialScore == 5
DefaultExplanation == "Score could not be determined from documents."

\* The parsed number taken as it is, without min(100, max(0, .)).
FinancialResultNoClamp(text) ==
    LET score_match == ScoreMatch(text)
    IN  IF score_match # <<>>
        THEN [score |-> score_match[1],
              explanation |-> IF text.explanation # NONE THEN text.explanation
                              ELSE DefaultExplanation]
        ELSE [score |-> DefaultFinancialScore, explanation |-> DefaultExplanation]

\* The score and explanation parsed from the scorer's answer.
FinancialResult(text) ==
    LET score_match == ScoreMatch(text)
    IN  IF score_match # <<>>
        THEN [score |-> Min(100, Max(0, score_match[1])),
              explanation |-> IF text.explanation # NONE THEN text.explanation
                              ELSE DefaultExplanation]
        ELSE [score |-> DefaultFinancialScore, explanation |-> DefaultExplanation]

\* The fields the financial handler writes.
FinancialData(score, explanation, at) ==
    [p \in {FinScore, FinAt, FinHistory} |->
        CASE p = FinScore -> score
          [] p = FinAt -> at
          [] p = FinHistory ->
                <<[score |-> score, reason |-> explanation, date |-> at]>>]

\* The validations of the financial handler, up to the write. front: how far
\* the request gets ("ok": the documents were extracted and the scorer
\* answered text).
FinancialOutcome(uid, front, text) ==
    LET fail(code, msg) == [code |-> code, body |-> [error |-> msg], data |-> EmptyDoc]
    IN
    IF uid = NONE THEN fail(400, "User ID required")
    ELSE IF front = "absent" THEN fail(400, "No file uploaded")
    ELSE IF front = "extractor_down" THEN fail(500, "Failed to process financial documents")
    ELSE IF front = "unsupported" THEN fail(400, "No valid documents processed")
    ELSE IF front = "scorer_down" THEN fail(500, "Failed to process financial documents")
    ELSE LET r == FinancialResult(text)
         IN  [code |-> 200,
              body |-> [trust_score |-> r.score, explanation |-> r.explanation],
              data |-> FinancialData(r.score, r.explanation, now)]

VerifyFinancial(uid, front, text) ==
    LET out == FinancialOutcome(uid, front, text)
    IN
    /\ users' = IF out.code = 200
                THEN [users EXCEPT ![uid] = TrustScoreWrite(@, out.data)]
                ELSE users
    /\ resp' = Reply("financial", [uid |-> uid, front |-> front, text |-> text],
                     out.code, out.body)
    /\ UNCHANGED <<now, loans, unlocks, otp_store, otp_log, inflight>>

FinancialFronts == {"ok", "absent", "unsupported", "extractor_down", "scorer_down"}

\* The requests of the financial handler: the text matters once it is read.
FinancialRequests(texts) ==
    [uid : Uids \cup {NONE}, front : {"ok"}, text : texts]
    \cup [uid : {"u1"}, front : FinancialFronts \ {"ok"},
          text : {[label |-> FALSE, digits |-> <<>>, explanation |-> NONE]}]

----------------------------------------------------------------------------
(* The two scoring handlers with their ledger write apart from the rest of *)
(* the request: a request computes its write, the ledger applies it later, *)
(* and another request may run in between.                                 *)

BeginIdentity(uid, phone_input, front, ev, gov) ==
    LET out == IdentityOutcome(uid, phone_input, front, ev, gov)
    IN
    /\ out.code = 200
    /\ Cardinality(inflight) < MaxInflight
    /\ inflight' = inflight \cup {[uid |-> uid, dimension |-> "identity", data |-> out.data]}
    /\ UNCHANGED <<now, loans, unlocks, users, otp_store, otp_log, resp>>

BeginFinancial(uid, front, text) ==
    LET out == FinancialOutcome(uid, front, text)
    IN
    /\ out.code = 200
    /\ Cardinality(inflight) < MaxInflight
    /\ inflight' = inflight \cup {[uid |-> uid, dimension |-> "financial", data |-> out.data]}
    /\ UNCHANGED <<now, loans, unlocks, users, otp_store, otp_log, resp>>

\* The ledger applies one write in flight, in any order.
CommitWrite(w) ==
    /\ w \in inflight
    /\ inflight' = inflight \ {w}
    /\ users' = [users EXCEPT ![w.uid] = TrustScoreWrite(@, w.data)]
    /\ resp' = Reply(w.dimension, [uid |-> w.uid], 200, "written")
    /\ UNCHANGED <<now, loans, unlocks, otp_store, otp_log>>

----------------------------------------------------------------------------
(* One-time codes: the process-wide otp_store, by email.                   *)

Emails == {"a@x.io", "b@x.io"}

\* str(random.randint(100000, 999999))
OtpCodes == {"111111", "222222"}

Remove(store, key) == [k \in (DOMAIN store) \ {key} |-> store[k]]

\* otp_log is the history of the store, kept for the properties: for each
\* email the codes that send-otp stored, in order, and the codes that
\* verify-otp accepted, in order.
NoOtpLog == [sent |-> [e \in Emails |-> <<>>], verified |-> [e \in Emails |-> <<>>]]

RECURSIVE SumLen(_, _)
SumLen(f, keys) ==
    IF keys = {} THEN 0
    ELSE LET k == CHOOSE x \in keys : TRUE
         IN  Len(f[k]) + SumLen(f, keys \ {k})

\* The codes stored so far by send-otp.
OtpSends == SumLen(otp_log.sent, Emails)

\* POST /send-otp. mailOk: the mailer delivers rather than raises.
SendOtp(email, otp, mailOk) ==
    LET args == [email |-> email]
    IN
    /\ IF email = NONE
       THEN /\ resp' = Reply("send_otp", args, 400, "Email required")
            /\ UNCHANGED <<otp_store, otp_log>>
       ELSE /\ OtpSends < MaxOtpSends
            /\ otp_store' = MergeSet(otp_store, [e \in {email} |-> otp])
            /\ otp_log' = [otp_log EXCEPT !.sent[email] = Append(@, otp)]
            /\ IF mailOk
               THEN resp' = Reply("send_otp", args, 200, "OTP sent")
               ELSE resp' = Reply("send_otp", args, 500, "Failed to send OTP")
    /\ UNCHANGED <<now, loans, unlocks, users, inflight>>

\* POST /verify-otp, the whole handler in one step.
VerifyOtp(email, otp) ==
    LET args == [email |-> email, otp |-> otp]
    IN
    /\ IF email = NONE \/ otp = NONE
       THEN /\ resp' = Reply("verify_otp", args, 400, "Email and OTP required")
            /\ UNCHANGED <<otp_store, otp_log>>
       ELSE IF Has(otp_store, email) /\ otp_store[email] = otp
       THEN /\ otp_store' = Remove(otp_store, email)
            /\ otp_log' = [otp_log EXCEPT !.verified[email] = Append(@, otp)]
            /\ resp' = Reply("verify_otp", args, 200, "OTP verified")
       ELSE /\ resp' = Reply("verify_otp", args, 400, "Invalid OTP")
            /\ UNCHANGED <<otp_store, otp_log>>
    /\ UNCHANGED <<now, loans, unlocks, users, inflight>>

----------------------------------------------------------------------------
(* The one-time-code handlers on the threads of the server: verify_otp     *)
(* reads the store (otp_store.get(email) == otp) and deletes from it       *)
(* (del otp_store[email]) in two steps, and other requests may run in      *)
(* between. send_otp writes the store in one step.                         *)

\* The request number of the next verify-otp in progress.
FreeReq == CHOOSE r \in 1..MaxInflight : \A w \in inflight : w.req # r

\* verify_otp up to the comparison: answered 400 at once, or in progress.
VerifyOtpCompare(email, otp) ==
    LET args == [email |-> email, otp |-> otp]
    IN
    /\ IF email = NONE \/ otp = NONE
       THEN /\ resp' = Reply("verify_otp", args, 400, "Email and OTP required")
            /\ UNCHANGED inflight
       ELSE IF Has(otp_store, email) /\ otp_store[email] = otp
       THEN /\ Cardinality(inflight) < MaxInflight
            /\ inflight' = inflight \cup {[req |-> FreeReq, email |-> email, otp |-> otp]}
            /\ UNCHANGED resp
       ELSE /\ resp' = Reply("verify_otp", args, 400, "Invalid OTP")
            /\ UNCHANGED inflight
    /\ UNCHANGED <<now, loans, unlocks, users, otp_store, otp_log>>

\* verify_otp from the del on: a KeyError when the entry is gone, which the
\* handler does not catch and the server answers with 500.
VerifyOtpDelete(w) ==
    LET args == [email |-> w.email, otp |-> w.otp]
    IN
    /\ inflight' = inflight \ {w}
    /\ IF Has(otp_store, w.email)
       THEN /\ otp_store' = Remove(otp_store, w.email)
            /\ otp_log' = [otp_log EXCEPT !.verified[w.email] = Append(@, w.otp)]
            /\ resp' = Reply("verify_otp", args, 200, "OTP verified")
       ELSE /\ resp' = Reply("verify_otp", args, 500, "KeyError")
            /\ UNCHANGED <<otp_store, otp_log>>
    /\ UNCHANGED <<now, loans, unlocks, users>>

----------------------------------------------------------------------------

Init ==
    /\ now = 0
    /\ loans = <<>>
    /\ unlocks = [id \in 1..MaxLoans |-> 0]
    /\ users = [u \in Uids |-> EmptyDoc]
    /\ otp_store = EmptyDoc
    /\ otp_log = NoOtpLog
    /\ inflight = {}
    /\ resp = [op |-> "none", args |-> NONE, code |-> 0, body |-> NONE, seq |-> 0]

NextLoan ==
    \/ Tick
    \/ \E r \in LoanRequests : LoanRequest(r.uid, r.amount, r.wallet, r.ledgerOk)
    \/ \E uid \in Uids, id \in 1..MaxLoans, decision \in Decisions :
          LoanDecision(uid, id, decision)
    \/ \E uid \in Uids, id \in 1..MaxLoans : LoanStatus(uid, id)

NextTotalDue ==
    \/ Tick
    \/ \E uid \in Uids : LoanStatus(uid, 1)

NextIdentity ==
    \E r \in IdentityRequests : VerifyIdentity(r.uid, r.phone, r.front, r.ev, r.gov)

NextFinancial ==
    \E r \in FinancialRequests(ScorerTexts) : VerifyFinancial(r.uid, r.front, r.text)

NextAccount ==
    \/ \E uid \in Uids, data \in ProfileBodies : ProfileUpdate(uid, data)
    \/ \E uid \in Uids \cup {NONE}, o \in FaceOutcomes :
          FaceVerify(uid, o.uploadOk, o.comparatorOk, o.verified)
    \/ \E r \in FewIdentityRequests :
          VerifyIdentity(r.uid, r.phone, r.front, r.ev, r.gov)
    \/ \E r \in FinancialRequests(FewScorerTexts) : VerifyFinancial(r.uid, r.front, r.text)

NextConc ==
    \/ \E r \in FewIdentityRequests :
          BeginIdentity(r.uid, r.phone, r.front, r.ev, r.gov)
    \/ \E r \in FinancialRequests(FewScorerTexts) : BeginFinancial(r.uid, r.front, r.text)
    \/ \E w \in inflight : CommitWrite(w)

NextOtp ==
    \/ \E email \in Emails \cup {NONE}, otp \in OtpCodes, mailOk \in BOOLEAN :
          SendOtp(email, otp, mailOk)
    \/ \E email \in Emails \cup {NONE}, otp \in OtpCodes \cup {NONE} : VerifyOtp(email, otp)

NextOtpConc ==
    \/ \E email \in Emails \cup {NONE}, otp \in OtpCodes, mailOk \in BOOLEAN :
          SendOtp(email, otp, mailOk)
    \/ \E email \in Emails \cup {NONE}, otp \in OtpCodes \cup {NONE} :
          VerifyOtpCompare(email, otp)
    \/ \E w \in inflight : VerifyOtpDelete(w)

Next == NextLoan \/ NextAccount \/ NextOtp

\* Users who have filled in their profile and uploaded their face images.
InitConc ==
    /\ now = 0
    /\ loans = <<>>
    /\ unlocks = [id \in 1..MaxLoans |-> 0]
    /\ users = [u \in Uids |->
                   MergeSet([name |-> "Asha Rao"], [face_images |-> FaceImages(u)])]
    /\ otp_store = EmptyDoc
    /\ otp_log = NoOtpLog
    /\ inflight = {}
    /\ resp = [op |-> "none", args |-> NONE, code |-> 0, body |-> NONE, seq |-> 0]

\* The ledger holds one loan of user u1, with any stored amount and dates.
InitTotalDue ==
    /\ now = 0
    /\ \E doc \in StoredLoans : loans = <<[uid |-> "u1", doc |-> doc]>>
    /\ unlocks = [id \in 1..MaxLoans |-> 0]
    /\ users = [u \in Uids |-> EmptyDoc]
    /\ otp_store = EmptyDoc
    /\ otp_log = NoOtpLog
    /\ inflight = {}
    /\ resp = [op |-> "none", args |-> NONE, code |-> 0, body |-> NONE, seq |-> 0]

\* Every handler, each as one step.
Spec == Init /\ [][Next]_vars

\* The loan ledger and the clock: no other handler touches users/<uid>/loans.
LoanSpec == Init /\ [][NextLoan]_vars

\* Status lookups of a stored loan as the days pass.
TotalDueSpec == InitTotalDue /\ [][NextTotalDue]_vars

\* The identity handler over every evidence bundle.
IdentitySpec == Init /\ [][NextIdentity]_vars

\* The financial handler over every scorer answer.
FinancialSpec == Init /\ [][NextFinancial]_vars

\* The handlers that write the user record.
AccountSpec == Init /\ [][NextAccount]_vars

\* The scoring handlers with their writes in flight.
ConcSpec == InitConc /\ [][NextConc]_vars

\* The one-time-code handlers.
OtpSpec == Init /\ [][NextOtp]_vars

\* The one-time-code handlers with verifications in progress.
OtpConcSpec == Init /\ [][NextOtpConc]_vars

----------------------------------------------------------------------------
(* Properties of the loan ledger, under LoanSpec.                          *)

\* This step is the loan status lookup of loan id by its owner.
StatusStep(id) ==
    /\ resp'.seq # resp.seq
    /\ resp'.op = "loan_status"
    /\ resp'.args.loan_id = id
    /\ id \in DOMAIN loans
    /\ resp'.args.uid = loans[id].uid

\* C1: over any sequence of status lookups of a loan (the clock never goes
\* back), the escrow is unlocked at most once; a lookup that answers
\* documents_released = true is one that unlocks; and every lookup after the
\* unlock succeeds, answers documents_released = false and writes nothing.
C1_ReleaseAtMostOnce ==
    [][\A id \in 1..MaxLoans :
        /\ unlocks'[id] <= 1
        /\ (StatusStep(id) /\ resp'.code = 200 /\ resp'.body.documents_released)
              => unlocks'[id] = unlocks[id] + 1
        /\ (StatusStep(id) /\ unlocks[id] >= 1)
              => /\ resp'.code = 200
                 /\ resp'.body.documents_released = FALSE
                 /\ loans' = loans
                 /\ unlocks' = unlocks]_vars

\* A lookup after the release, on a later day, has answered false.
C1_Witness ==
    \E id \in DOMAIN loans :
        /\ unlocks[id] = 1
        /\ resp.op = "loan_status" /\ resp.code = 200
        /\ resp.args.loan_id = id
        /\ resp.body.documents_released = FALSE
        /\ resp.body.current_date > loans[id].doc.released_at

\* C2: a status lookup of an existing loan answers documents_released = true
\* and sets the flag exactly when the flag was not set and the current day
\* is on or after the due day; before the due day it answers false with 200
\* and leaves the loan as it is; so the flag is never set before the due day
\* and, once set, stays set.
C2_ReleaseExactlyWhenDue ==
    [][\A id \in DOMAIN loans :
        /\ StatusStep(id)
              => /\ resp'.code = 200
                 /\ resp'.body.documents_released
                       = (~ReleasedFlag(loans[id].doc) /\ now >= loans[id].doc.due_date)
                 /\ ReleasedFlag(loans'[id].doc)
                       = (ReleasedFlag(loans[id].doc) \/ resp'.body.documents_released)
                 /\ now < loans[id].doc.due_date => loans' = loans
        /\ ReleasedFlag(loans'[id].doc) => now' >= loans'[id].doc.due_date
        /\ ReleasedFlag(loans[id].doc) => ReleasedFlag(loans'[id].doc)]_vars

\* A lookup on or after the due day has released the documents and set the
\* flag.
C2_Witness ==
    /\ resp.op = "loan_status" /\ resp.code = 200
    /\ resp.body.documents_released
    /\ resp.body.current_date >= resp.body.due_date
    /\ ReleasedFlag(loans[resp.args.loan_id].doc)

\* C3: a loan's status only moves from pending to approved or to rejected:
\* a decided loan never changes its status again.
C3_StatusOneDirectional ==
    [][\A id \in DOMAIN loans :
        loans'[id].doc.status # loans[id].doc.status
            => /\ loans[id].doc.status = "pending"
               /\ loans'[id].doc.status \in {"approved", "rejected"}]_vars

\* C12: for a stored loan with a positive principal, a status lookup fails
\* with 400 and writes nothing when the due day is before the issue day;
\* otherwise it succeeds with a total due of exactly the principal while the
\* current day is on or before the due day, and of more than the principal
\* once it is after; and over successive lookups of the loan, as the days
\* late grow, the total due never decreases.
C12_TotalDue ==
    [][\A id \in DOMAIN loans :
        StatusStep(id) =>
            LET doc == loans[id].doc
            IN  IF doc.due_date < doc.timestamp
                THEN resp'.code = 400 /\ loans' = loans
                ELSE /\ resp'.code = 200
                     /\ now <= doc.due_date
                           => resp'.body.total_due = 100 * doc.amount
                     /\ now > doc.due_date
                           => resp'.body.total_due > 100 * doc.amount
                     /\ (resp.op = "loan_status" /\ resp.code = 200
                            /\ resp.args = resp'.args)
                           => resp'.body.total_due >= resp.body.total_due]_vars

\* A lookup more than a day after the due day of a loan with a valid date
\* range has answered more than the principal plus one day's penalty.
C12_Witness ==
    /\ resp.op = "loan_status" /\ resp.code = 200
    /\ resp.body.current_date > resp.body.due_date + 1
    /\ resp.body.total_due > 100 * resp.body.principal + resp.body.principal
    /\ resp.body.issue_date <= resp.body.due_date

\* C13: a status lookup of an absent loan is answered 404, and every
\* successful lookup reports in documents_released the loan's stored flag as
\* it stands after the lookup; so it answers true on every lookup after the
\* release.
C13_StatusReportsStoredFlag ==
    [][(resp'.seq # resp.seq /\ resp'.op = "loan_status") =>
          IF ~LoanExists(resp'.args.uid, resp'.args.loan_id)
          THEN resp'.code = 404
          ELSE resp'.code = 200
                  => resp'.body.documents_released
                        = ReleasedFlag(loans'[resp'.args.loan_id].doc)]_vars

----------------------------------------------------------------------------
(* Properties of the user record, under AccountSpec and ConcSpec.          *)

\* The trust_score map of a user record.
TrustScoreOf(doc) == [p \in TrustPaths \cap DOMAIN doc |-> doc[p]]

ErrorCodes == {400, 403, 404, 500}

\* C4: a user's trust_score map changes only in a successful identity or
\* financial scoring request for that user; every other request leaves it
\* as it is.
C4_TrustScoreOnlyByScoring ==
    [][\A u \in Uids :
        TrustScoreOf(users'[u]) # TrustScoreOf(users[u])
            => /\ resp'.op \in {"identity", "financial"}
               /\ resp'.code = 200
               /\ resp'.args.uid = u]_vars

\* C5: a request that is answered with an error leaves the user records,
\* the loans and the one-time codes as they were.
C5_NoWriteOnError ==
    [][(resp'.seq # resp.seq /\ resp'.code \in ErrorCodes)
          => (users' = users /\ loans' = loans /\ otp_store' = otp_store)]_vars

\* The history of a dimension in a user record, empty while absent.
HistoryOf(doc, path) == IF Has(doc, path) THEN doc[path] ELSE <<>>

\* The write of w has been applied to the record of its user: before is the
\* record before, after the record after.
Applied(w, before, after) ==
    LET own == DOMAIN w.data
        other == TrustPaths \ own
    IN  /\ own = (IF w.dimension = "identity" THEN {IdScore, IdAt, IdHistory}
                  ELSE {FinScore, FinAt, FinHistory})
        /\ \A p \in own : Has(after, p) /\ after[p] = w.data[p]
        /\ \A p \in other : Has(after, p) = Has(before, p)
        /\ \A p \in other \cap DOMAIN before : after[p] = before[p]
        /\ Has(after, "name") /\ after.name = before.name
        /\ Has(after, "face_images") /\ after.face_images = before.face_images

\* C6: whenever the ledger applies an identity or a financial write, in any
\* order and with other writes in flight, the user record then holds the
\* score and history of that write, keeps the score and history of the other
\* dimension, and keeps its profile fields and face_images; no other record
\* changes.
C6_DimensionsDoNotInterfere ==
    [][\A w \in inflight :
        (inflight' = inflight \ {w})
            => /\ Applied(w, users[w.uid], users'[w.uid])
               /\ \A u \in Uids \ {w.uid} : users'[u] = users[u]]_vars

\* A financial write has been applied to a record that holds an identity
\* score, while an identity write for the same user is still in flight.
C6_Witness ==
    /\ resp.op = "financial" /\ resp.code = 200
    /\ Has(users[resp.args.uid], FinScore)
    /\ Has(users[resp.args.uid], IdScore)
    /\ users[resp.args.uid].name = "Asha Rao"
    /\ \E w \in inflight : w.uid = resp.args.uid /\ w.dimension = "identity"

\* This step is a successful scoring request of user u for the dimension.
RecordStep(u, op) ==
    /\ resp'.seq # resp.seq
    /\ resp'.op = op /\ resp'.code = 200
    /\ resp'.args.uid = u

\* C7: every successful scoring request appends one entry to the history of
\* its dimension: the history grows by one and keeps its earlier entries.
C7_HistoryAppendOnly ==
    [][\A u \in Uids :
        /\ RecordStep(u, "identity")
              => /\ Len(HistoryOf(users'[u], IdHistory))
                        = Len(HistoryOf(users[u], IdHistory)) + 1
                 /\ SubSeq(HistoryOf(users'[u], IdHistory), 1,
                           Len(HistoryOf(users[u], IdHistory)))
                        = HistoryOf(users[u], IdHistory)
        /\ RecordStep(u, "financial")
              => /\ Len(HistoryOf(users'[u], FinHistory))
                        = Len(HistoryOf(users[u], FinHistory)) + 1
                 /\ SubSeq(HistoryOf(users'[u], FinHistory), 1,
                           Len(HistoryOf(users[u], FinHistory)))
                        = HistoryOf(users[u], FinHistory)]_vars

----------------------------------------------------------------------------
(* Properties of identity scoring, under IdentitySpec.                     *)

\* This step is an identity request that reached the regexes.
IdentityStep ==
    /\ resp'.seq # resp.seq
    /\ resp'.op = "identity"
    /\ resp'.args.uid # NONE /\ resp'.args.phone # NONE
    /\ resp'.args.front = "ok"

Bucket(b, points) == IF b THEN points ELSE 0

\* C8: the score of a bundle that passes verification is 40 for the verified
\* primary ID, 30 for an extracted secondary ID number, 20 for an extracted
\* phone equal to the submitted one and 10 for an extracted name, capped at
\* 100: within 0..100, 100 with all four buckets, 0 with none; and it is the
\* score stored.
C8_IdentityScoreBuckets ==
    (resp.op = "identity" /\ resp.code = 200) =>
        LET b == resp.body
            primary == b.pan_verified
            secondary == b.aadhaar_number # NONE
            phone == b.phone_extracted # NONE /\ b.phone_extracted = b.phone_provided
            name == b.name_extracted # NONE
            sum == Bucket(primary, 40) + Bucket(secondary, 30) + Bucket(phone, 20)
                       + Bucket(name, 10)
        IN  /\ b.trust_score = IF sum > 100 THEN 100 ELSE sum
            /\ b.trust_score \in 0..100
            /\ (primary /\ secondary /\ phone /\ name) => b.trust_score = 100
            /\ (~primary /\ ~secondary /\ ~phone /\ ~name) => b.trust_score = 0
            /\ users[resp.args.uid][IdScore] = b.trust_score

\* A bundle with a secondary ID number and an extracted phone that differs
\* from the submitted one has passed with 80.
C8_Witness ==
    /\ resp.op = "identity" /\ resp.code = 200
    /\ resp.body.phone_extracted # NONE
    /\ resp.body.phone_extracted # resp.body.phone_provided
    /\ resp.body.aadhaar_number # NONE
    /\ resp.body.trust_score = 80

\* The request's evidence fails verification: no primary ID number or no
\* name, or, for an ID other than the bypass code, no government record, a
\* record not marked verified, a name that differs from the record's beyond
\* letter case, or a submitted phone that is not the record's.
EvidenceMismatch(args) ==
    \/ args.pan = NONE
    \/ args.name = NONE
    \/ /\ args.pan # BypassPan
       /\ \/ ~args.record.present
          \/ ~args.record.verified
          \/ Lower(args.name) # Lower(args.record.name)
          \/ args.phone # args.record.phone

\* C9: an identity request whose evidence fails verification is answered 403
\* and writes nothing; and a request that stores an identity score is one
\* whose primary ID was verified.
C9_RejectOnMismatch ==
    [][IdentityStep =>
        /\ EvidenceMismatch(resp'.args) => (resp'.code = 403 /\ users' = users)
        /\ (users' # users \/ resp'.code = 200)
              => /\ ~EvidenceMismatch(resp'.args)
                 /\ resp'.body.pan_verified
                 /\ users'[resp'.args.uid][IdHistory][1].reason[2]]_vars

\* A request whose name matches the verified record but whose submitted phone
\* does not has been rejected, with an identity score of an earlier request
\* still stored.
C9_Witness ==
    /\ resp.op = "identity" /\ resp.code = 403
    /\ resp.args.record.present /\ resp.args.record.verified
    /\ Lower(resp.args.name) = Lower(resp.args.record.name)
    /\ resp.args.phone # resp.args.record.phone
    /\ Has(users[resp.args.uid], IdScore)

\* C10: a request whose extracted primary ID is the bypass code and whose
\* name is extracted succeeds with pan_verified and a score of at least 50,
\* and reads no government record, whatever the collection holds for the
\* code and whatever name and phone were submitted.
C10_BypassShortCircuit ==
    (/\ resp.op = "identity"
     /\ resp.args.uid # NONE /\ resp.args.phone # NONE /\ resp.args.front = "ok"
     /\ resp.args.pan = BypassPan /\ resp.args.name # NONE)
        => /\ resp.code = 200
           /\ resp.body.pan_verified
           /\ resp.body.trust_score >= 50
           /\ ~resp.body.gov_lookup
           /\ users[resp.args.uid][IdScore] = resp.body.trust_score

\* The bypass code has passed although the collection holds an unverified
\* record under it with another name and phone.
C10_Witness ==
    /\ resp.op = "identity" /\ resp.code = 200
    /\ resp.args.pan = BypassPan
    /\ resp.args.record.present /\ ~resp.args.record.verified
    /\ resp.args.record.name # resp.args.name
    /\ resp.args.record.phone # resp.args.phone

----------------------------------------------------------------------------
(* Properties of financial scoring, under FinancialSpec.                   *)

\* The scorer's answer holds "Score:" followed by a digit.
HasScorePattern(text) == text.label /\ Len(text.digits) >= 1

\* C11: a financial request whose documents were extracted and whose scorer
\* answered succeeds whatever the answer says: the score returned is within
\* 0..100 and is the score stored, with one history entry carrying it; and
\* an answer without a "Score: N" pattern gives the fallback score 5 with
\* the non-empty explanation that the score could not be determined.
C11_FinancialScoreNeverFails ==
    (/\ resp.op = "financial"
     /\ resp.args.uid # NONE /\ resp.args.front = "ok")
        => /\ resp.code = 200
           /\ resp.body.trust_score \in 0..100
           /\ users[resp.args.uid][FinScore] = resp.body.trust_score
           /\ users[resp.args.uid][FinHistory][1].score = resp.body.trust_score
           /\ users[resp.args.uid][FinHistory][1].reason = resp.body.explanation
           /\ ~HasScorePattern(resp.args.text)
                 => /\ resp.body.trust_score = 5
                    /\ resp.body.explanation
                          = "Score could not be determined from documents."
                    /\ resp.body.explanation # ""

\* An answer with the label but no number after it has been given the
\* fallback score, and one with a number above 100 has been capped.
C11_Witness ==
    /\ resp.op = "financial" /\ resp.code = 200
    /\ resp.args.text.label /\ resp.args.text.digits = <<>>
    /\ resp.body.trust_score = 5
    /\ \E u \in Uids \ {resp.args.uid} :
          /\ Has(users[u], FinScore)
          /\ users[u][FinScore] = 100
          /\ users[u][FinHistory][1].reason = "Score could not be determined from documents."

----------------------------------------------------------------------------
(* Properties of the one-time codes, under OtpConcSpec.                    *)

\* How often the code occurs in a history.
Count(history, code) == Cardinality({i \in 1..Len(history) : history[i] = code})

\* C14: one-time codes are single-use and latest-only, however the requests
\* interleave: a verification passes its comparison only with the code of
\* the most recent send-otp for the email; a code is accepted at most as
\* often as it was sent, so that a second verification with the code of one
\* send-otp never succeeds as well; an accepted verification leaves no entry
\* for the email; and a verification that fails leaves the store as it was.
C14_OtpSingleUse ==
    [][/\ \A w \in inflight' \ inflight :
            /\ otp_log.sent[w.email] # <<>>
            /\ w.otp = otp_log.sent[w.email][Len(otp_log.sent[w.email])]
       /\ \A e \in Emails, c \in OtpCodes :
            Count(otp_log'.verified[e], c) <= Count(otp_log'.sent[e], c)
       /\ (resp'.seq # resp.seq /\ resp'.op = "verify_otp")
            => IF resp'.code = 200
               THEN ~Has(otp_store', resp'.args.email)
               ELSE otp_store' = otp_store]_vars

====
